---- MODULE Spec2Model ----
(***************************************************************************)
(* Model of the application intake-and-scoring pipeline of the recruitment *)
(* backend: the intake endpoints (app/api/applications.py,                 *)
(* app/api/webhooks.py), the background pipeline process_application, the  *)
(* resume parser (app/services/cv_parser.py) and the scoring service       *)
(* (app/services/ai_scoring.py).                                           *)
(*                                                                         *)
(* The persisted state is the committed content of the jobs and            *)
(* applications tables. Every process_application run works on its own     *)
(* SQLAlchemy session: attribute assignments stay in the session until     *)
(* db.commit() writes them in one transaction; a commit that fails rolls   *)
(* the session back and raises.                                            *)
(***************************************************************************)
EXTENDS Integers, Sequences, FiniteSets, TLC

VARIABLES
    jobs,      \* committed rows of table jobs: job id -> row
    apps,      \* committed rows of table applications: application id -> row
    tasks,     \* background tasks added by the endpoints and not yet started
    run,       \* per application id: the process_application invocation in progress
    last,      \* per application id: how many invocations ended, and what the last left
    probe      \* input and result of a direct call of a pure function

vars == <<jobs, apps, tasks, run, last, probe>>

(***************************************************************************)
(* Optional values: None is the empty sequence, Some(x) a one-element one. *)
(***************************************************************************)
None == <<>>

Some(x) == <<x>>

IsSome(o) == o # None

Get(o) == o[1]

Min(a, b) == IF a <= b THEN a ELSE b

Max(a, b) == IF a >= b THEN a ELSE b

(***************************************************************************)
(* Strings. A text is a record [body, pad]: the characters of body         *)
(* followed by pad space characters (long resumes are a short body and a   *)
(* run of trailing blanks, so that the length thresholds are reached       *)
(* without searching thousands of characters).                             *)
(***************************************************************************)
UpperAlphabet == "ABCDEFGHIJKLMNOPQRSTUVWXYZ"

LowerAlphabet == "abcdefghijklmnopqrstuvwxyz"

CharAt(s, i) == SubSeq(s, i, i)

IsUpper(c) == \E i \in 1..26 : CharAt(UpperAlphabet, i) = c

IsLower(c) == \E i \in 1..26 : CharAt(LowerAlphabet, i) = c

\* str.lower() on one character
LowerChar(c) ==
    IF IsUpper(c)
    THEN CharAt(LowerAlphabet, CHOOSE i \in 1..26 : CharAt(UpperAlphabet, i) = c)
    ELSE c

\* str.upper() on one character
UpperChar(c) ==
    IF IsLower(c)
    THEN CharAt(UpperAlphabet, CHOOSE i \in 1..26 : CharAt(LowerAlphabet, i) = c)
    ELSE c

RECURSIVE Lower(_)
\* str.lower(), character by character (the string is halved at each step)
Lower(s) ==
    IF Len(s) = 0 THEN ""
    ELSE IF Len(s) = 1 THEN LowerChar(s)
    ELSE LET half == Len(s) \div 2
         IN  Lower(SubSeq(s, 1, half)) \o Lower(SubSeq(s, half + 1, Len(s)))

RECURSIVE TitleFrom(_, _)
\* str.title(), given whether the previous character was a letter
TitleFrom(s, prevCased) ==
    IF Len(s) = 0 THEN ""
    ELSE LET c == CharAt(s, 1)
             cased == IsUpper(c) \/ IsLower(c)
         IN  (IF prevCased THEN LowerChar(c) ELSE UpperChar(c))
                 \o TitleFrom(SubSeq(s, 2, Len(s)), cased)

\* str.title()
Title(s) == TitleFrom(s, FALSE)

\* Python's  s in t  on strings
Contains(s, t) ==
    \E i \in 1..(Len(t) - Len(s) + 1) : SubSeq(t, i, i + Len(s) - 1) = s

\* a text with no trailing blanks
Txt(s) == [body |-> s, pad |-> 0]

\* len(text)
TextLen(t) == Len(t.body) + t.pad

\* text.lower(), without the trailing blanks
TextLower(t) == Lower(t.body)

(***************************************************************************)
(* Dictionaries are functions from keys to values.                         *)
(***************************************************************************)
EmptyDict == [k \in {} |-> k]

\* dict.get(key, default)
DictGet(d, k, default) == IF k \in DOMAIN d THEN d[k] ELSE default

\* Python truthiness of an Optional[dict]: None and {} are falsy
Truthy(o) == IsSome(o) /\ DOMAIN Get(o) # {}

Range(seq) == {seq[i] : i \in 1..Len(seq)}

(***************************************************************************)
(* Scoring service, app/services/ai_scoring.py                             *)
(***************************************************************************)
\* the list common_skills of _extract_keywords
common_skills ==
    << "python", "javascript", "java", "react", "angular", "vue", "node", "express",
       "django", "flask", "fastapi", "sql", "nosql", "mongodb", "postgresql", "mysql",
       "aws", "azure", "gcp", "docker", "kubernetes", "ci/cd", "git", "jenkins",
       "rest", "graphql", "typescript", "html", "css", "sass", "tailwind", "bootstrap",
       "machine learning", "ai", "data science", "pandas", "numpy", "tensorflow", "pytorch",
       "agile", "scrum", "project management", "leadership", "communication", "teamwork" >>

\* _extract_keywords: the set of the skills of common_skills found in the text
ExtractKeywords(text) ==
    LET text_lower == TextLower(text)
    IN  {skill \in Range(common_skills) : Contains(skill, text_lower)}

\* a variant that asks every skill of the CV, not some skill, to contain the keyword
MatchCountAll(required_keywords, cv_skills) ==
    Cardinality({keyword \in required_keywords :
                    \A skill \in cv_skills : Contains(Lower(keyword), Lower(skill))})

\* the loop counting the required keywords contained in some skill of the CV
MatchCount(required_keywords, cv_skills) ==
    Cardinality({keyword \in required_keywords :
                    \E skill \in cv_skills : Contains(Lower(keyword), Lower(skill))})

\* a variant whose two thresholds are inclusive
LengthBonusInclusive(text_length) ==
    IF text_length >= 2000 THEN 10
    ELSE IF text_length >= 1000 THEN 5
    ELSE 0

\* points for the content length
LengthBonus(text_length) ==
    IF text_length > 2000 THEN 10
    ELSE IF text_length > 1000 THEN 5
    ELSE 0

\* The score is a float in the code; here it is the exact fraction num / den
\* with den = ScoreDen(total), the number of required keywords (1 when there
\* are none).
ScoreDen(total) == IF total > 0 THEN total ELSE 1

\* a variant that gives the full skill points when nothing is required
RawScoreNumFullWhenNone(matches, total, text_length) ==
    LET den == ScoreDen(total)
        skillPoints == IF total > 0 THEN Min(40 * matches, 40 * den) ELSE 40 * den
    IN  50 * den + skillPoints + LengthBonus(text_length) * den

\* score after the skill and length points: 50 + min(matches/total*100*0.4, 40) + bonus
RawScoreNum(matches, total, text_length) ==
    LET den == ScoreDen(total)
        skillPoints == IF total > 0 THEN Min(40 * matches, 40 * den) ELSE 0
    IN  50 * den + skillPoints + LengthBonus(text_length) * den

\* a variant that adds the match percentage unscaled and skips the clamp
ScoreNumUnscaled(matches, total, text_length) ==
    LET den == ScoreDen(total)
        skillPoints == IF total > 0 THEN 100 * matches ELSE 0
    IN  50 * den + skillPoints + LengthBonus(text_length) * den

\* a variant that takes 10 points off for every required keyword not matched
ScoreNumPenalised(matches, total, text_length) ==
    LET den == ScoreDen(total)
    IN  Max(0, Min(100 * den, RawScoreNum(matches, total, text_length)
                                  - 10 * (total - matches) * den))

\* score = max(0, min(100, score)), as a numerator over ScoreDen(total)
ScoreNum(matches, total, text_length) ==
    LET den == ScoreDen(total)
    IN  Max(0, Min(100 * den, RawScoreNum(matches, total, text_length)))

\* a variant that leaves the middle band pending for a manual review
StatusOfScoreReview(num, den) ==
    IF num >= 75 * den THEN "shortlisted"
    ELSE IF num >= 50 * den THEN "pending"
    ELSE "rejected"

\* a variant with strict comparisons at the two thresholds
StatusOfScoreStrict(num, den) ==
    IF num > 75 * den THEN "shortlisted"
    ELSE IF num > 50 * den THEN "flagged"
    ELSE "rejected"

\* the status of a clamped score num / den
StatusOfScore(num, den) ==
    IF num >= 75 * den THEN "shortlisted"
    ELSE IF num >= 50 * den THEN "flagged"
    ELSE "rejected"

\* int(score): truncation of the non-negative fraction num / den
IntOfScore(num, den) == num \div den

\* _basic_scoring
BasicScoring(job_requirements, parsed_cv_data) ==
    LET cv_skills == DictGet(parsed_cv_data, "skills", {})
        required_keywords == ExtractKeywords(job_requirements)
        matches == MatchCount(required_keywords, cv_skills)
        total == Cardinality(required_keywords)
        text_length == DictGet(parsed_cv_data, "text_length", 0)
        num == ScoreNum(matches, total, text_length)
        den == ScoreDen(total)
    IN  [ score |-> IntOfScore(num, den),
          status |-> StatusOfScore(num, den),
          feedback |-> <<"Matched", matches, "out of", total, "key skills">>,
          matched_skills |-> matches,
          total_required_skills |-> total ]

\* a variant in which the advanced path raises a strong score by 5 points
AdvancedAiScoringBoost(job_requirements, parsed_cv_data) ==
    LET basic_result == BasicScoring(job_requirements, parsed_cv_data)
    IN  IF basic_result.score > 80
        THEN [basic_result EXCEPT !.score = Min(100, @ + 5),
                                  !.feedback = @ \o <<"| Strong AI match">>]
        ELSE basic_result

\* _advanced_ai_scoring
AdvancedAiScoring(job_requirements, parsed_cv_data) ==
    LET basic_result == BasicScoring(job_requirements, parsed_cv_data)
    IN  IF basic_result.score > 80
        THEN [basic_result EXCEPT !.feedback = @ \o <<"| Strong AI match">>]
        ELSE IF basic_result.score < 30
        THEN [basic_result EXCEPT !.feedback = @ \o <<"| Low AI confidence">>]
        ELSE basic_result

\* score_application: the basic path without a provider key, else the advanced one
ScoreApplication(openai_api_key, job_requirements, parsed_cv_data) ==
    IF ~openai_api_key
    THEN BasicScoring(job_requirements, parsed_cv_data)
    ELSE AdvancedAiScoring(job_requirements, parsed_cv_data)

\* Whether _basic_scoring raises on an optional requirements text: with None,
\* text.lower() in _extract_keywords raises AttributeError.
BasicScoringRaises(requirements) == requirements = None

\* _advanced_ai_scoring calls _basic_scoring first and raises when it does
AdvancedAiScoringRaises(requirements) == BasicScoringRaises(requirements)

\* Whether score_application raises: without a key the basic path runs outside
\* any try; with a key the except branch runs the basic path again.
ScoreApplicationRaises(openai_api_key, requirements) ==
    IF ~openai_api_key
    THEN BasicScoringRaises(requirements)
    ELSE AdvancedAiScoringRaises(requirements) /\ BasicScoringRaises(requirements)

(***************************************************************************)
(* Resume parser, app/services/cv_parser.py                                *)
(***************************************************************************)
\* the list skills_keywords of _extract_info_from_text
skills_keywords ==
    << "python", "javascript", "java", "react", "angular", "vue", "node", "express",
       "django", "flask", "fastapi", "sql", "nosql", "mongodb", "postgresql", "mysql",
       "aws", "azure", "gcp", "docker", "kubernetes", "ci/cd", "git", "jenkins",
       "rest", "graphql", "typescript", "html", "css", "sass", "tailwind", "bootstrap",
       "machine learning", "ai", "data science", "pandas", "numpy", "tensorflow", "pytorch" >>

\* the skills found in the text, title-cased and deduplicated
FoundSkills(text) ==
    LET text_lower == TextLower(text)
    IN  {Title(skill) : skill \in {k \in Range(skills_keywords) : Contains(k, text_lower)}}

IsSpace(c) == c \in {" ", "\t", "\n"}

\* str.split() of a string: its maximal runs of non-space characters, in order
Split(s) ==
    LET starts == {i \in 1..Len(s) :
                      ~IsSpace(CharAt(s, i)) /\ (i = 1 \/ IsSpace(CharAt(s, i - 1)))}
        EndOf(i) == CHOOSE j \in i..Len(s) :
                        /\ \A k \in i..j : ~IsSpace(CharAt(s, k))
                        /\ (j = Len(s) \/ IsSpace(CharAt(s, j + 1)))
        StartNo(k) == CHOOSE i \in starts : Cardinality({j \in starts : j < i}) = k - 1
    IN  [k \in 1..Cardinality(starts) |-> SubSeq(s, StartNo(k), EndOf(StartNo(k)))]

\* the words of every line, in order (the trailing blanks hold none)
Words(text) == Split(text.body)

\* str.count of a character
CountChar(s, c) == Cardinality({i \in 1..Len(s) : CharAt(s, i) = c})

\* the email loop: the first word with an "@" and a "." that has exactly one
\* "@", lower-cased; None when there is none
ExtractEmail(text) ==
    LET words == Words(text)
        hits == {i \in 1..Len(words) :
                    /\ Contains("@", words[i])
                    /\ Contains(".", words[i])
                    /\ CountChar(words[i], "@") = 1}
    IN  IF hits = {} THEN None
        ELSE Some(Lower(words[CHOOSE i \in hits : \A j \in hits : i <= j]))

\* text[:n]
TextTake(text, n) ==
    IF Len(text.body) >= n
    THEN [body |-> SubSeq(text.body, 1, n), pad |-> 0]
    ELSE [body |-> text.body, pad |-> Min(text.pad, n - Len(text.body))]

\* the characters of text[:500] that raw_text_preview keeps
PreviewLength == 500

\* a variant that also truncates a text of exactly the preview length
RawTextPreviewInclusive(text) ==
    IF TextLen(text) >= PreviewLength
    THEN [text |-> TextTake(text, PreviewLength), marker |-> "..."]
    ELSE [text |-> text, marker |-> ""]

\* text[:500] + "..." if len(text) > 500 else text: the kept text and the
\* marker that follows it
RawTextPreview(text) ==
    IF TextLen(text) > PreviewLength
    THEN [text |-> TextTake(text, PreviewLength), marker |-> "..."]
    ELSE [text |-> text, marker |-> ""]

\* _extract_info_from_text
ExtractInfoFromText(text) ==
    [ email |-> ExtractEmail(text),
      skills |-> FoundSkills(text),
      text_length |-> TextLen(text),
      raw_text_preview |-> RawTextPreview(text) ]

\* The files a resume_file path can name. A file has the media type libmagic
\* detects, the text its extractor yields, and whether extraction raises.
Disk(path) ==
    CASE path = "cv_python.txt" ->
            [exists |-> TRUE, mime |-> "text/plain", readable |-> TRUE,
             text |-> [body |-> "Python, SQL and Docker", pad |-> 0]]
      [] path = "cv_web.pdf" ->
            [exists |-> TRUE, mime |-> "application/pdf", readable |-> TRUE,
             text |-> [body |-> "JavaScript React AWS", pad |-> 2100]]
      [] path = "cv_corrupt.pdf" ->
            [exists |-> TRUE, mime |-> "application/pdf", readable |-> FALSE,
             text |-> [body |-> "Python", pad |-> 0]]
      [] path = "photo.png" ->
            [exists |-> TRUE, mime |-> "image/png", readable |-> TRUE,
             text |-> [body |-> "", pad |-> 0]]
      [] OTHER ->
            [exists |-> FALSE, mime |-> "", readable |-> FALSE,
             text |-> [body |-> "", pad |-> 0]]

\* os.path.exists
PathExists(path) == Disk(path).exists

\* _parse_pdf, _parse_docx, _parse_text: the text, or "" when extraction raises
ExtractText(file) == IF file.readable THEN file.text ELSE Txt("")

SupportedTypes ==
    { "application/pdf",
      "application/vnd.openxmlformats-officedocument.wordprocessingml.document",
      "application/msword",
      "text/plain" }

\* a variant in which a file that cannot be read makes parse_resume raise
ParseResumeRaisesUnreadable(file_path) ==
    Disk(file_path).exists /\ ~Disk(file_path).readable

\* Whether parse_resume raises: its whole body is in a try whose except
\* returns None, and each extractor catches its own failure
ParseResumeRaises(file_path) == FALSE

\* parse_resume: the facts record, or None for a missing file or an unsupported type
ParseResume(file_path) ==
    LET file == Disk(file_path)
    IN  IF ~file.exists THEN None
        ELSE IF file.mime \in SupportedTypes
        THEN Some(ExtractInfoFromText(ExtractText(file)))
        ELSE None

(***************************************************************************)
(* Bounds and the inputs the environment chooses from                      *)
(***************************************************************************)
MaxJobs == 1

MaxApps == 1

\* direct calls of process_application, besides the background tasks
MaxCalls == 1

\* the jobs the job-management side has created
JobIds == 1..MaxJobs

\* the job ids a request can name: those of the jobs and one of no job
RequestedJobIds == 1..(MaxJobs + 1)

\* the ids (uuids) an application can have or a caller can pass
AppIds == 1..MaxApps

\* JobCreate.requirements is a str: the texts a created job can carry
RequirementValues ==
    { Some(Txt("We need Python and SQL")) }

\* the uploads of submit_application: declared content type, stored file,
\* and whether save_uploaded_file succeeds
Uploads ==
    { [content_type |-> "text/plain", path |-> "cv_python.txt", saved |-> TRUE],
      [content_type |-> "application/pdf", path |-> "cv_web.pdf", saved |-> FALSE],
      [content_type |-> "image/png", path |-> "photo.png", saved |-> TRUE] }

\* WebhookApplication.resume_file: no path, or any path the sender names
WebhookResumeFiles == { None, Some("cv_corrupt.pdf") }

\* WebhookApplication.metadata
WebhookMetadata == { None, Some([file_type |-> ".pdf"]) }

\* what the parser and the scorer return for the files and the requirement
\* texts of this model, computed once
ResumeFiles ==
    {u.path : u \in Uploads} \cup {Get(f) : f \in WebhookResumeFiles \ {None}}

ParsedResumes == [file_path \in ResumeFiles |-> ParseResume(file_path)]

ParsedFacts ==
    {EmptyDict} \cup {Get(ParsedResumes[f]) : f \in {g \in ResumeFiles : Truthy(ParsedResumes[g])}}

\* the requirements of the jobs when runs are studied on their own: a text
\* with two known skills and one with none
RunRequirementValues ==
    { Some(Txt("We need Python and SQL")), Some(Txt("Friendly person wanted")) }

ScoringResults ==
    [openai_api_key \in BOOLEAN,
     job_requirements \in {Get(r) : r \in (RequirementValues \cup RunRequirementValues) \ {None}},
     parsed_cv_data \in ParsedFacts |->
        ScoreApplication(openai_api_key, job_requirements, parsed_cv_data)]

Statuses == {"pending", "shortlisted", "flagged", "rejected"}

JobStatuses == {"active", "expired", "closed"}

Terminal == {"shortlisted", "flagged", "rejected"}

(***************************************************************************)
(* Persisted rows, app/models.py                                           *)
(***************************************************************************)
\* Job(...)
JobRow(requirements) == [requirements |-> requirements]

\* Application(...): ai_score defaults to NULL
ApplicationRow(job_id, resume_file, status, parsed_data) ==
    [ job_id |-> job_id,
      resume_file |-> resume_file,
      parsed_data |-> parsed_data,
      ai_score |-> None,
      status |-> status ]

\* the columns the pipeline writes
Triple(row) ==
    [parsed_data |-> row.parsed_data, ai_score |-> row.ai_score, status |-> row.status]

(***************************************************************************)
(* The session of one process_application invocation                       *)
(***************************************************************************)
IdleRun ==
    [ pc |-> "idle",
      src |-> "",                 \* "task": a background task, "call": a direct call
      bound |-> FALSE,            \* whether the local name application is bound
      application |-> None,       \* the session's Application object
      dirty |-> {},               \* its attributes assigned since the last commit or rollback
      job |-> None,
      parsed_data |-> None,
      scoring_result |-> None,
      before |-> None ]           \* the row as the lookup found it

Active(id) == run[id].pc # "idle"

\* the ids no application has and no caller has passed: uuid.uuid4() of a new
\* Application row never repeats an id already seen
FreeIds == {id \in AppIds : id \notin DOMAIN apps /\ ~Active(id) /\ last[id].n = 0}

NewAppId == CHOOSE id \in FreeIds : \A other \in FreeIds : id <= other

\* a variant in which the commit leaves the status for a later write
FlushedWithoutStatus(dirty) == dirty \ {"status"}

\* the attributes one commit writes: every assigned attribute, in one transaction
FlushedAttrs(dirty) == dirty

\* db.commit() on the row: the assigned attributes replace the stored ones
CommitWrites(row, obj, dirty) ==
    [f \in DOMAIN row |-> IF f \in FlushedAttrs(dirty) THEN obj[f] ELSE row[f]]

\* the assigned attributes left in the session after a failed commit: the
\* session is rolled back and its objects are expired
DirtyAfterRollback(dirty) == {}

\* a variant in which the except block resets the application for a retry
HandlerStatusPending == "pending"

\* ApplicationStatus.FLAGGED, the status the except block assigns
HandlerStatus == "flagged"

(***************************************************************************)
(* The intake endpoints                                                    *)
(***************************************************************************)
\* a variant that schedules the task in both forms the endpoints use, with
\* and without the session as a second argument
CreateAndScheduleTwice(row, nargs) ==
    LET id == NewAppId
    IN  /\ apps' = apps @@ (id :> row)
        /\ tasks' = tasks \cup {[app |-> id, nargs |-> n] : n \in {1, 2}}
        /\ UNCHANGED <<jobs, run, last, probe>>

\* db.add, db.commit, db.refresh, then background_tasks.add_task with nargs
\* positional arguments
CreateAndSchedule(row, nargs) ==
    LET id == NewAppId
    IN  /\ apps' = apps @@ (id :> row)
        /\ tasks' = tasks \cup {[app |-> id, nargs |-> nargs]}
        /\ UNCHANGED <<jobs, run, last, probe>>

allowed_types ==
    { "application/pdf",
      "application/vnd.openxmlformats-officedocument.wordprocessingml.document",
      "application/msword",
      "text/plain" }

\* a variant that stores the upload whatever its content type
SubmitApplicationAnyType(job_id, job_status, deadline_passed, upload) ==
    /\ FreeIds # {}
    /\ IF job_id \notin DOMAIN jobs \/ job_status # "active"
       THEN UNCHANGED vars
       ELSE IF deadline_passed
       THEN UNCHANGED vars
       ELSE IF ~upload.saved
       THEN UNCHANGED vars
       ELSE CreateAndSchedule(
                ApplicationRow(job_id, Some(upload.path), "pending", None), 1)

\* POST /api/applications/apply/{job_id}. The job must be active and its
\* deadline not passed when the request arrives.
SubmitApplication(job_id, job_status, deadline_passed, upload) ==
    /\ FreeIds # {}
    /\ IF job_id \notin DOMAIN jobs \/ job_status # "active"
       THEN UNCHANGED vars                                   \* 404
       ELSE IF deadline_passed
       THEN UNCHANGED vars                                   \* 400
       ELSE IF upload.content_type \notin allowed_types
       THEN UNCHANGED vars                                   \* 400
       ELSE IF ~upload.saved
       THEN UNCHANGED vars                                   \* 500
       ELSE CreateAndSchedule(
                ApplicationRow(job_id, Some(upload.path), "pending", None), 1)

\* POST /api/applications/email-hook/{job_id}
EmailWebhook(job_id, resume_file) ==
    /\ FreeIds # {}
    /\ IF job_id \notin DOMAIN jobs
       THEN UNCHANGED vars                                   \* 404
       ELSE CreateAndSchedule(
                ApplicationRow(job_id, resume_file, "pending", None), 1)

\* POST /api/webhooks/n8n/{job_id}. Writing the decoded resume_content reads
\* settings.upload_dir, a name the module never imports: the NameError is
\* caught and resume_file_path stays None. The task gets two arguments.
N8nWebhook(job_id, metadata) ==
    /\ FreeIds # {}
    /\ IF job_id \notin DOMAIN jobs
       THEN UNCHANGED vars                                   \* 404
       ELSE CreateAndSchedule(
                ApplicationRow(job_id, None, "pending",
                    Some(IF Truthy(metadata) THEN Get(metadata) ELSE EmptyDict)), 2)

\* email_data.body[:200] + "..." if the body is longer than 200, else the body
BodyPreview(body) ==
    IF IsSome(body) /\ Len(Get(body)) > 200
    THEN Some(SubSeq(Get(body), 1, 200) \o "...")
    ELSE body

\* POST /api/webhooks/email-parser/{job_id}. Saving an attachment fails the
\* same way (settings is not imported), so resume_file_path stays None.
EmailParserWebhook(job_id, email_data) ==
    /\ FreeIds # {}
    /\ IF job_id \notin DOMAIN jobs
       THEN UNCHANGED vars                                   \* 404
       ELSE CreateAndSchedule(
                ApplicationRow(job_id, None, "pending",
                    Some([ source |-> "email_webhook",
                           subject |-> email_data.subject,
                           body_preview |-> BodyPreview(email_data.body) ])), 2)

EmailData == { [subject |-> "Application", body |-> Some("Please find my CV attached")] }

(***************************************************************************)
(* process_application, app/api/applications.py                            *)
(***************************************************************************)
Queued(id) == Cardinality({t \in tasks : t.app = id})

\* what an ended invocation with session r leaves in last: how it ended and
\* the row before and after
Ended(id, r, outcome, path, table) ==
    [ n |-> last[id].n + 1,
      calls |-> last[id].calls,
      src |-> r.src,
      outcome |-> outcome,
      path |-> path,
      before |-> r.before,
      after |-> IF id \in DOMAIN table THEN Some(table[id]) ELSE None ]

\* the invocation on id, with session r, is over (finally: db.close())
Finish(id, r, outcome, path, table) ==
    /\ run' = [run EXCEPT ![id] = IdleRun]
    /\ last' = [last EXCEPT ![id] = Ended(id, r, outcome, path, table)]

\* except Exception: print, then  if application: status = FLAGGED; db.commit().
\* r is the session when the exception arrives. With application never
\* assigned, reading it raises UnboundLocalError out of the except block.
ExceptBlock(id, r) ==
    IF ~r.bound
    THEN Finish(id, r, "raised", "unbound", apps)
    ELSE IF IsSome(r.application)
    THEN /\ run' = [run EXCEPT ![id] =
                      [r EXCEPT !.application =
                                    Some([Get(@) EXCEPT !.status = HandlerStatus]),
                                !.dirty = @ \cup {"status"},
                                !.pc = "handler_commit"]]
         /\ UNCHANGED last
    ELSE Finish(id, r, "returned", "not_flagged", apps)

\* a variant of the early return that upserts a flagged row for the id
ReturnFlagging(id, path) ==
    /\ apps' = (id :> ApplicationRow(0, None, HandlerStatus, None)) @@ apps
    /\ Finish(id, run[id], "returned", path, apps')

\* if not application: return / if not job: return. Nothing was assigned and
\* nothing is committed.
ReturnOnMiss(id, path) ==
    /\ Finish(id, run[id], "returned", path, apps)
    /\ UNCHANGED apps

\* the scheduler runs a background task: func(*args). Two positional
\* arguments do not fit process_application(application_id): TypeError,
\* and the body never runs.
StartTask(t) ==
    /\ t \in tasks
    /\ ~Active(t.app)
    /\ tasks' = tasks \ {t}
    /\ IF t.nargs = 1
       THEN /\ run' = [run EXCEPT ![t.app] =
                         [IdleRun EXCEPT !.pc = "query_app", !.src = "task"]]
            /\ UNCHANGED last
       ELSE /\ last' = [last EXCEPT ![t.app] =
                          Ended(t.app, [IdleRun EXCEPT !.src = "task"],
                                "raised", "type_error", apps)]
            /\ UNCHANGED run
    /\ UNCHANGED <<jobs, apps, probe>>

RECURSIVE SumCalls(_)
SumCalls(ids) ==
    IF ids = {} THEN 0
    ELSE LET id == CHOOSE x \in ids : TRUE
         IN  last[id].calls + SumCalls(ids \ {id})

\* a caller invokes process_application(id) itself, for an id that may name
\* no application; never while another invocation on that id is in progress
Call(id) ==
    /\ ~Active(id)
    /\ SumCalls(AppIds) < MaxCalls
    /\ run' = [run EXCEPT ![id] = [IdleRun EXCEPT !.pc = "query_app", !.src = "call"]]
    /\ last' = [last EXCEPT ![id].calls = @ + 1]
    /\ UNCHANGED <<jobs, apps, tasks, probe>>

\* application = db.query(Application).filter(...).first(); if not application: return
QueryApplication(id) ==
    /\ run[id].pc = "query_app"
    /\ \E ok \in BOOLEAN :
         IF ~ok
         THEN ExceptBlock(id, run[id]) /\ UNCHANGED apps
         ELSE IF id \in DOMAIN apps
         THEN /\ run' = [run EXCEPT ![id] =
                           [@ EXCEPT !.bound = TRUE,
                                     !.application = Some(apps[id]),
                                     !.before = Some(apps[id]),
                                     !.pc = "query_job"]]
              /\ UNCHANGED <<last, apps>>
         ELSE ReturnOnMiss(id, "app_missing")
    /\ UNCHANGED <<jobs, tasks, probe>>

\* job = db.query(Job).filter(Job.id == application.job_id).first(); if not job: return
QueryJob(id) ==
    /\ run[id].pc = "query_job"
    /\ LET job_id == Get(run[id].application).job_id
       IN  \E ok \in BOOLEAN :
             IF ~ok
             THEN ExceptBlock(id, run[id]) /\ UNCHANGED apps
             ELSE IF job_id \in DOMAIN jobs
             THEN /\ run' = [run EXCEPT ![id] =
                               [@ EXCEPT !.job = Some(jobs[job_id]), !.pc = "parse"]]
                  /\ UNCHANGED <<last, apps>>
             ELSE ReturnOnMiss(id, "job_missing")
    /\ UNCHANGED <<jobs, tasks, probe>>

\* parsed_data = None; if application.resume_file and os.path.exists(...):
\* parsed_data = CVParser().parse_resume(...); then scoring_result =
\* AIScoringService().score_application(job.requirements, parsed_data or {}).
\* Constructing CVParser loads libmagic outside any try of the parser and may
\* raise. With requirements None, text.lower() raises AttributeError on the
\* basic path, which both branches of score_application end in
\* (ScoreApplicationRaises).
ParseAndScore(id) ==
    /\ run[id].pc = "parse"
    /\ LET resume_file == Get(run[id].application).resume_file
           parse == IsSome(resume_file) /\ PathExists(Get(resume_file))
           parsed_data == IF parse THEN ParsedResumes[Get(resume_file)] ELSE None
           facts == IF Truthy(parsed_data) THEN Get(parsed_data) ELSE EmptyDict
           requirements == Get(run[id].job).requirements
       IN  \E ok \in (IF parse THEN BOOLEAN ELSE {TRUE}), openai_api_key \in BOOLEAN :
             IF \/ ~ok
                \/ parse /\ ParseResumeRaises(Get(resume_file))
                \/ ScoreApplicationRaises(openai_api_key, requirements)
             THEN ExceptBlock(id, run[id])
             ELSE   /\ run' = [run EXCEPT ![id] =
                                 [@ EXCEPT !.parsed_data = parsed_data,
                                           !.scoring_result =
                                               Some(ScoringResults[openai_api_key,
                                                        Get(requirements), facts]),
                                           !.pc = "assign"]]
                    /\ UNCHANGED last
    /\ UNCHANGED <<jobs, apps, tasks, probe>>

\* the attribute assignments on the session's object, in the order of \o
AssignAll(obj, assignments) ==
    [f \in DOMAIN obj |->
        IF \E i \in 1..Len(assignments) : assignments[i][1] = f
        THEN LET i == CHOOSE j \in 1..Len(assignments) :
                        /\ assignments[j][1] = f
                        /\ \A k \in (j + 1)..Len(assignments) : assignments[k][1] # f
             IN  assignments[i][2]
        ELSE obj[f]]

\* a variant that keeps the stored parsed_data when the run parsed nothing
AssignResultKeeping(id) ==
    /\ run[id].pc = "assign"
    /\ LET kept == IF run[id].parsed_data = None
                   THEN Get(run[id].application).parsed_data
                   ELSE run[id].parsed_data
           assignments ==
               << <<"parsed_data", kept>>,
                  <<"ai_score", Some(Get(run[id].scoring_result).score)>>,
                  <<"status", Get(run[id].scoring_result).status>> >>
       IN  run' = [run EXCEPT ![id] =
                     [@ EXCEPT !.application = Some(AssignAll(Get(@), assignments)),
                               !.dirty = @ \cup {assignments[i][1] : i \in 1..3},
                               !.pc = "commit"]]
    /\ UNCHANGED <<jobs, apps, tasks, last, probe>>

\* application.parsed_data = parsed_data; application.ai_score =
\* scoring_result["score"]; application.status = ApplicationStatus(scoring_result["status"])
AssignResult(id) ==
    /\ run[id].pc = "assign"
    /\ LET assignments ==
               << <<"parsed_data", run[id].parsed_data>>,
                  <<"ai_score", Some(Get(run[id].scoring_result).score)>>,
                  <<"status", Get(run[id].scoring_result).status>> >>
       IN  run' = [run EXCEPT ![id] =
                     [@ EXCEPT !.application = Some(AssignAll(Get(@), assignments)),
                               !.dirty = @ \cup {assignments[i][1] : i \in 1..3},
                               !.pc = "commit"]]
    /\ UNCHANGED <<jobs, apps, tasks, last, probe>>

\* a variant whose commit writes the result to every application of the job
CommitForJob(id) ==
    /\ run[id].pc = "commit"
    /\ \E ok \in BOOLEAN :
         IF ok
         THEN LET table == [a \in DOMAIN apps |->
                              IF apps[a].job_id = apps[id].job_id
                              THEN CommitWrites(apps[a], Get(run[id].application),
                                                run[id].dirty)
                              ELSE apps[a]]
              IN  /\ apps' = table
                  /\ Finish(id, run[id], "returned", "scored", table)
         ELSE /\ ExceptBlock(id, [run[id] EXCEPT
                                    !.application = Some(apps[id]),
                                    !.dirty = DirtyAfterRollback(@)])
              /\ UNCHANGED apps
    /\ UNCHANGED <<jobs, tasks, probe>>

\* db.commit() of the result. A failed commit rolls the session back: the row
\* is untouched, the object is expired and the except block runs.
Commit(id) ==
    /\ run[id].pc = "commit"
    /\ \E ok \in BOOLEAN :
         IF ok
         THEN LET table == [apps EXCEPT ![id] =
                              CommitWrites(@, Get(run[id].application), run[id].dirty)]
              IN  /\ apps' = table
                  /\ Finish(id, run[id], "returned", "scored", table)
         ELSE /\ ExceptBlock(id, [run[id] EXCEPT
                                    !.application = Some(apps[id]),
                                    !.dirty = DirtyAfterRollback(@)])
              /\ UNCHANGED apps
    /\ UNCHANGED <<jobs, tasks, probe>>

\* db.commit() inside the except block; nothing catches its failure
HandlerCommit(id) ==
    /\ run[id].pc = "handler_commit"
    /\ \E ok \in BOOLEAN :
         IF ok
         THEN LET table == [apps EXCEPT ![id] =
                              CommitWrites(@, Get(run[id].application), run[id].dirty)]
              IN  /\ apps' = table
                  /\ Finish(id, run[id], "returned", "flagged_on_error", table)
         ELSE /\ Finish(id, run[id], "raised", "handler_commit_failed", apps)
              /\ UNCHANGED apps
    /\ UNCHANGED <<jobs, tasks, probe>>

(***************************************************************************)
(* The deployed system: jobs, the four intake endpoints, the background    *)
(* tasks and direct calls of the pipeline                                  *)
(***************************************************************************)
NoProbe == [fn |-> "none"]

\* no invocation on the id has ended yet
NoRun ==
    [ n |-> 0, calls |-> 0, src |-> "", outcome |-> "", path |-> "",
      before |-> None, after |-> None ]

Init ==
    /\ jobs \in [JobIds -> {JobRow(r) : r \in RequirementValues}]
    /\ apps = EmptyDict
    /\ tasks = {}
    /\ run = [id \in AppIds |-> IdleRun]
    /\ last = [id \in AppIds |-> NoRun]
    /\ probe = NoProbe

Next ==
    \/ \E job_id \in RequestedJobIds, job_status \in JobStatuses,
          deadline_passed \in BOOLEAN, upload \in Uploads :
            SubmitApplication(job_id, job_status, deadline_passed, upload)
    \/ \E job_id \in RequestedJobIds, resume_file \in WebhookResumeFiles :
            EmailWebhook(job_id, resume_file)
    \/ \E job_id \in RequestedJobIds, metadata \in WebhookMetadata : N8nWebhook(job_id, metadata)
    \/ \E job_id \in RequestedJobIds, email_data \in EmailData :
            EmailParserWebhook(job_id, email_data)
    \/ \E t \in tasks : StartTask(t)
    \/ \E id \in AppIds : Call(id)
    \/ \E id \in AppIds : QueryApplication(id)
    \/ \E id \in AppIds : QueryJob(id)
    \/ \E id \in AppIds : ParseAndScore(id)
    \/ \E id \in AppIds : AssignResult(id)
    \/ \E id \in AppIds : Commit(id)
    \/ \E id \in AppIds : HandlerCommit(id)

Spec == Init /\ [][Next]_vars

(***************************************************************************)
(* Runs of the scheduled tasks on their own: the applications exist,       *)
(* pending, each with its task queued, and only the pipeline acts          *)
(***************************************************************************)
\* the resume_file of a stored application: none, a path that names no file,
\* a file that cannot be read, one of an unsupported detected type, a good one
RunResumeFiles ==
    { None, Some("missing.pdf"), Some("cv_corrupt.pdf"), Some("photo.png"),
      Some("cv_python.txt") }

RunRows == {ApplicationRow(1, f, "pending", None) : f \in RunResumeFiles}

RunInit ==
    /\ jobs \in [JobIds -> {JobRow(r) : r \in RunRequirementValues}]
    /\ apps \in [AppIds -> RunRows]
    /\ tasks = {[app |-> id, nargs |-> 1] : id \in AppIds}
    /\ run = [id \in AppIds |-> IdleRun]
    /\ last = [id \in AppIds |-> NoRun]
    /\ probe = NoProbe

PipelineNext ==
    \/ \E t \in tasks : StartTask(t)
    \/ \E id \in DOMAIN run : QueryApplication(id)
    \/ \E id \in DOMAIN run : QueryJob(id)
    \/ \E id \in DOMAIN run : ParseAndScore(id)
    \/ \E id \in DOMAIN run : AssignResult(id)
    \/ \E id \in DOMAIN run : Commit(id)
    \/ \E id \in DOMAIN run : HandlerCommit(id)

RunSpec == RunInit /\ [][PipelineNext]_vars

\* Several applications of one job processed side by side
MaxRuns == 2

RunIds == 1..MaxRuns

PairRows ==
    {ApplicationRow(1, f, "pending", None) : f \in {None, Some("cv_python.txt")}}

PairInit ==
    /\ jobs \in [JobIds -> {JobRow(r) : r \in RequirementValues}]
    /\ apps \in [RunIds -> PairRows]
    /\ tasks = {[app |-> id, nargs |-> 1] : id \in RunIds}
    /\ run = [id \in RunIds |-> IdleRun]
    /\ last = [id \in RunIds |-> NoRun]
    /\ probe = NoProbe

PairSpec == PairInit /\ [][PipelineNext]_vars

(***************************************************************************)
(* score_application on its own: the inputs are drawn in the initial       *)
(* state and the service is applied to them                                *)
(***************************************************************************)
\* requirements texts: no known skill, two, four and five skills, and one
\* whose keywords contain each other ("java" in "javascript")
ProbeRequirements ==
    { Txt("Friendly person wanted"),
      Txt("We need Python and SQL"),
      Txt("React, AWS, Docker and Python"),
      Txt("Python, SQL, Docker, React and AWS"),
      Txt("Python, SQL and Git"),
      Txt("JavaScript developer") }

\* Job.requirements is a nullable column: a text, or None
ProbeRequirementValues == {None} \cup {Some(r) : r \in ProbeRequirements}

\* the skill lists a facts record can carry, as the parser title-cases them
ProbeSkillNames == {"Python", "Sql", "Javascript", "Docker"}

ProbeSkills == SUBSET ProbeSkillNames

\* text lengths around the two bonus thresholds
ProbeTextLengths == {0, 1000, 1001, 2000, 2001}

\* the facts records: the empty record, and skills with a text length
ProbeFacts ==
    {EmptyDict} \cup
    {[skills |-> sk, text_length |-> n] : sk \in ProbeSkills, n \in ProbeTextLengths}

ScoreInit ==
    /\ jobs = EmptyDict
    /\ apps = EmptyDict
    /\ tasks = {}
    /\ run = [id \in AppIds |-> IdleRun]
    /\ last = [id \in AppIds |-> NoRun]
    /\ probe \in {[fn |-> "input", openai_api_key |-> k, job_requirements |-> r,
                   parsed_cv_data |-> f] :
                      k \in BOOLEAN, r \in ProbeRequirementValues, f \in ProbeFacts}

\* AIScoringService().score_application(job_requirements, parsed_cv_data)
ScoreProbe ==
    /\ probe.fn = "input"
    /\ IF ScoreApplicationRaises(probe.openai_api_key, probe.job_requirements)
       THEN probe' = [probe EXCEPT !.fn = "score_application_raised"]
       ELSE probe' = [fn |-> "score_application",
                      openai_api_key |-> probe.openai_api_key,
                      job_requirements |-> probe.job_requirements,
                      parsed_cv_data |-> probe.parsed_cv_data,
                      result |-> ScoreApplication(probe.openai_api_key,
                                     Get(probe.job_requirements), probe.parsed_cv_data)]
    /\ UNCHANGED <<jobs, apps, tasks, run, last>>

\* a second call with the same requirements and text length and a skill list
\* that has the skills of the first and possibly more
ScoreWithMoreSkills ==
    /\ probe.fn = "score_application"
    /\ "skills" \in DOMAIN probe.parsed_cv_data
    /\ \E more \in SUBSET ProbeSkillNames :
         LET facts == [probe.parsed_cv_data EXCEPT !.skills = @ \cup more]
         IN  probe' = [fn |-> "score_application_twice",
                       openai_api_key |-> probe.openai_api_key,
                       job_requirements |-> probe.job_requirements,
                       parsed_cv_data |-> probe.parsed_cv_data,
                       result |-> probe.result,
                       more_cv_data |-> facts,
                       more_result |-> ScoreApplication(probe.openai_api_key,
                                          Get(probe.job_requirements), facts)]
    /\ UNCHANGED <<jobs, apps, tasks, run, last>>

ScoreNext == ScoreProbe \/ ScoreWithMoreSkills

ScoreSpec == ScoreInit /\ [][ScoreNext]_vars

(***************************************************************************)
(* The parser's fact extraction followed by scoring, on their own: a       *)
(* resume text and a requirements text are drawn in the initial state      *)
(***************************************************************************)
RECURSIVE Repeat(_, _)
\* the string s written n times
Repeat(s, n) == IF n = 0 THEN "" ELSE s \o Repeat(s, n - 1)

\* resume texts; the last is longer than the preview
ProbeBodies ==
    { "",
      Repeat("Python SQL ", 46),
      "Python, SQL and Docker",
      "Agile Python developer, SQL",
      "Contact JANE@Example.com; skills: Java, React",
      "leadership, communication and teamwork" }

\* trailing blanks that bring a text to just below, onto and just above the
\* preview length, and past the upper length threshold of the scorer
ProbePads(body) ==
    {0, 2100} \cup {Max(0, PreviewLength + d - Len(body)) : d \in {-1, 0, 1}}

ProbeTexts ==
    UNION {{[body |-> b, pad |-> p] : p \in ProbePads(b)} : b \in ProbeBodies}

ParseProbeRequirements ==
    { Txt("We need Python and SQL"),
      Txt("Python developer for an agile team"),
      Txt("Leadership and communication") }

ParseInit ==
    /\ jobs = EmptyDict
    /\ apps = EmptyDict
    /\ tasks = {}
    /\ run = [id \in AppIds |-> IdleRun]
    /\ last = [id \in AppIds |-> NoRun]
    /\ probe \in {[fn |-> "input", text |-> t, job_requirements |-> r] :
                      t \in ProbeTexts, r \in ParseProbeRequirements}

\* CVParser()._extract_info_from_text(text)
ExtractProbe ==
    /\ probe.fn = "input"
    /\ probe' = [fn |-> "extract_info_from_text",
                 text |-> probe.text,
                 job_requirements |-> probe.job_requirements,
                 facts |-> ExtractInfoFromText(probe.text)]
    /\ UNCHANGED <<jobs, apps, tasks, run, last>>

\* AIScoringService()._basic_scoring(job_requirements, facts) on the parsed facts
ScoreParsed ==
    /\ probe.fn = "extract_info_from_text"
    /\ probe' = [fn |-> "basic_scoring",
                 text |-> probe.text,
                 job_requirements |-> probe.job_requirements,
                 facts |-> probe.facts,
                 result |-> BasicScoring(probe.job_requirements, probe.facts)]
    /\ UNCHANGED <<jobs, apps, tasks, run, last>>

ParseNext == ExtractProbe \/ ScoreParsed

ParseSpec == ParseInit /\ [][ParseNext]_vars

(***************************************************************************)
(* Report summary, app/api/reports.py                                      *)
(***************************************************************************)
\* [app for app in applications if app.ai_score is not None]
ScoredApplications(applications) ==
    SelectSeq(applications, LAMBDA app : app.ai_score # None)

\* [app.ai_score for app in applications if app.ai_score is not None]
Scores(applications) ==
    LET scored == ScoredApplications(applications)
    IN  [i \in 1..Len(scored) |-> Get(scored[i].ai_score)]

RECURSIVE SumSeq(_)
\* sum(scores)
SumSeq(seq) == IF Len(seq) = 0 THEN 0 ELSE seq[1] + SumSeq(Tail(seq))

\* max(scores), min(scores)
MaxOf(seq) == CHOOSE x \in Range(seq) : \A y \in Range(seq) : y <= x

MinOf(seq) == CHOOSE x \in Range(seq) : \A y \in Range(seq) : x <= y

\* a variant that puts elements of equal key in reverse order, as reversing
\* an ascending sort does
SortedAscendingReversed(seq, keys) ==
    LET Place(i) == 1 + Cardinality({j \in 1..Len(seq) : keys[j] > keys[i]})
                      + Cardinality({j \in (i + 1)..Len(seq) : keys[j] = keys[i]})
    IN  [k \in 1..Len(seq) |-> seq[CHOOSE i \in 1..Len(seq) : Place(i) = k]]

\* sorted(seq, key=..., reverse=True), keys[i] the key of seq[i]: descending by
\* key, elements of equal key in their order in seq (the sort is stable, also
\* when reversed)
SortedDescending(seq, keys) ==
    LET Place(i) == 1 + Cardinality({j \in 1..Len(seq) : keys[j] > keys[i]})
                      + Cardinality({j \in 1..(i - 1) : keys[j] = keys[i]})
    IN  [k \in 1..Len(seq) |-> seq[CHOOSE i \in 1..Len(seq) : Place(i) = k]]

\* seq[:n]
Take(seq, n) == SubSeq(seq, 1, Min(n, Len(seq)))

\* the slice [:5] of the candidates and the argument of most_common(10)
TopCandidatesKept == 5

TopSkillsKept == 10

\* the decimals of round(average_score, 2), as a factor
AverageScale == 100

\* round(num / den, 2) in hundredths: to the nearest, an exact tie to the even one
RoundedHundredths(num, den) ==
    LET q == (AverageScale * num) \div den
        r == (AverageScale * num) % den
    IN  IF 2 * r < den THEN q
        ELSE IF 2 * r > den THEN q + 1
        ELSE IF q % 2 = 0 THEN q ELSE q + 1

\* a variant that sums the scores of all applications, a null score as 0
AverageOverAll(applications) ==
    IF Len(applications) = 0 THEN 0
    ELSE RoundedHundredths(SumSeq(Scores(applications)), Len(applications))

\* round(sum(scores) / len(scores) if scores else 0, 2), in hundredths
AverageScore(applications) ==
    LET scores == Scores(applications)
    IN  IF Len(scores) = 0 THEN 0
        ELSE RoundedHundredths(SumSeq(scores), Len(scores))

\* a variant that counts every application that is not pending as shortlisted
CountNotPending(applications, status) ==
    Len(SelectSeq(applications, LAMBDA app : app.status # "pending"))

\* len([app for app in applications if app.status == status])
CountStatus(applications, status) ==
    Len(SelectSeq(applications, LAMBDA app : app.status = status))

\* app.parsed_data.get("skills", []) if app.parsed_data else []
CandidateSkills(app) ==
    IF Truthy(app.parsed_data) THEN DictGet(Get(app.parsed_data), "skills", <<>>) ELSE <<>>

\* the entry of top_candidates_data for one application
CandidateData(app) ==
    [ email |-> app.applicant_email,
      score |-> Get(app.ai_score),
      status |-> app.status,
      skills |-> CandidateSkills(app) ]

\* sorted(scored, key=ai_score, reverse=True)[:5], as top_candidates_data
TopCandidates(applications) ==
    LET scored == ScoredApplications(applications)
        top == Take(SortedDescending(scored, Scores(applications)), TopCandidatesKept)
    IN  [i \in 1..Len(top) |-> CandidateData(top[i])]

RECURSIVE AllSkills(_)
\* all_skills: the skill lists of the applications that have one, concatenated
AllSkills(applications) ==
    IF Len(applications) = 0 THEN <<>>
    ELSE LET app == Head(applications)
             own == IF Truthy(app.parsed_data) /\ "skills" \in DOMAIN Get(app.parsed_data)
                    THEN Get(app.parsed_data).skills
                    ELSE <<>>
         IN  own \o AllSkills(Tail(applications))

\* Counter(all_skills): the distinct skills in the order of their first
\* occurrence, each with its count
SkillFrequency(all_skills) ==
    LET firsts == {i \in 1..Len(all_skills) :
                      \A j \in 1..(i - 1) : all_skills[j] # all_skills[i]}
        FirstNo(k) == CHOOSE i \in firsts : Cardinality({j \in firsts : j < i}) = k - 1
    IN  [k \in 1..Cardinality(firsts) |->
            [ skill |-> all_skills[FirstNo(k)],
              count |-> Cardinality({j \in 1..Len(all_skills) :
                                        all_skills[j] = all_skills[FirstNo(k)]}) ]]

\* skill_frequency.most_common(10)
TopSkills(applications) ==
    LET skill_frequency == SkillFrequency(AllSkills(applications))
        counts == [k \in 1..Len(skill_frequency) |-> skill_frequency[k].count]
    IN  Take(SortedDescending(skill_frequency, counts), TopSkillsKept)

\* a variant that sorts the argument in place, scored applications first
SnapshotSortedInPlace(applications) ==
    SortedDescending(applications,
                     [i \in 1..Len(applications) |->
                         IF applications[i].ai_score = None THEN 0 - 1
                         ELSE Get(applications[i].ai_score)])

\* the applications list after the call: sorted() and the comprehensions build
\* new lists and leave the argument as it was
SnapshotAfterSummary(applications) == applications

\* generate_report_summary(job, applications), called at time now
GenerateReportSummary(job, applications, now) ==
    LET scores == Scores(applications)
    IN  [ job_title |-> job.job_title,
          generated_at |-> now,
          statistics |->
              [ total_applications |-> Len(applications),
                shortlisted |-> CountStatus(applications, "shortlisted"),
                flagged |-> CountStatus(applications, "flagged"),
                rejected |-> CountStatus(applications, "rejected"),
                average_score |-> AverageScore(applications),
                max_score |-> IF Len(scores) > 0 THEN MaxOf(scores) ELSE 0,
                min_score |-> IF Len(scores) > 0 THEN MinOf(scores) ELSE 0 ],
          top_candidates |-> TopCandidates(applications),
          skills_analysis |->
              [ top_skills |-> TopSkills(applications),
                total_unique_skills |-> Len(SkillFrequency(AllSkills(applications))) ],
          processing_notes |->
              [ ai_model_used |-> "Basic scoring algorithm",
                cv_parsing_success_rate |->
                    << Len(SelectSeq(applications, LAMBDA app : Truthy(app.parsed_data))),
                       Len(applications) >> ] ]

(***************************************************************************)
(* Report summaries of bounded snapshots                                   *)
(***************************************************************************)
MaxSnapshot == 6

\* an Application row as the report reads it
Candidate(email, ai_score, status, parsed_data) ==
    [ applicant_email |-> email, ai_score |-> ai_score,
      status |-> status, parsed_data |-> parsed_data ]

\* the applications a snapshot is drawn from: scored ones of each status, two of
\* equal score, and a pending one without a score
ReportCandidates ==
    { Candidate("ada@example.com", Some(90), "shortlisted",
                Some([skills |-> <<"python", "sql">>])),
      Candidate("ben@example.com", Some(90), "shortlisted",
                Some([skills |-> <<"sql">>])),
      Candidate("cy@example.com", Some(70), "flagged", Some(EmptyDict)),
      Candidate("dee@example.com", Some(40), "rejected",
                Some([skills |-> <<"docker", "sql">>])),
      Candidate("eve@example.com", None, "pending", None),
      Candidate("fay@example.com", Some(100), "shortlisted",
                Some([source |-> "email"])),
      Candidate("hal@example.com", Some(60), "flagged",
                Some([skills |-> <<"python">>])) }

\* db.query(Application).filter(job_id == ...).all(): rows of the job, each once
Snapshots ==
    UNION {{seq \in [1..n -> ReportCandidates] :
                \A i, j \in 1..n : seq[i] = seq[j] => i = j} : n \in 0..MaxSnapshot}

ReportJob == [job_title |-> "Backend Engineer"]

\* the times datetime.now() is read at
ReportTimes == {1, 2}

ReportInit ==
    /\ jobs = EmptyDict
    /\ apps = EmptyDict
    /\ tasks = {}
    /\ run = [id \in AppIds |-> IdleRun]
    /\ last = [id \in AppIds |-> NoRun]
    /\ probe \in {[fn |-> "input", job |-> ReportJob, applications |-> a, now |-> 1] :
                      a \in Snapshots}

\* summary = generate_report_summary(job, applications)
SummarizeReport ==
    /\ probe.fn = "input"
    /\ probe' = [fn |-> "generate_report_summary",
                 job |-> probe.job,
                 applications |-> probe.applications,
                 applications_after |-> SnapshotAfterSummary(probe.applications),
                 now |-> probe.now,
                 summary |-> GenerateReportSummary(probe.job, probe.applications,
                                                   probe.now)]
    /\ UNCHANGED <<jobs, apps, tasks, run, last>>

\* a second call on the same job and snapshot, at the same time or later
SummarizeAgain ==
    /\ probe.fn = "generate_report_summary"
    /\ \E now \in ReportTimes :
          /\ now >= probe.now
          /\ probe' = [fn |-> "generate_report_summary_twice",
                       job |-> probe.job,
                       applications |-> probe.applications,
                       applications_after |-> SnapshotAfterSummary(probe.applications_after),
                       now |-> now,
                       summary |-> probe.summary,
                       second |-> GenerateReportSummary(probe.job,
                                                        probe.applications_after, now)]
    /\ UNCHANGED <<jobs, apps, tasks, run, last>>

ReportNext == SummarizeReport \/ SummarizeAgain

ReportSpec == ReportInit /\ [][ReportNext]_vars

(***************************************************************************)
(* Properties of the pipeline                                              *)
(***************************************************************************)
\* an invocation on id has ended after entering the body of process_application
EndedInBody(id) == last[id].n > 0 /\ last[id].path # "type_error"

\* the status of application id changes in this step
StatusChanges(id) == id \in DOMAIN apps /\ apps'[id].status # apps[id].status

\* the row of application id changes in this step
RowChanges(id) == id \in DOMAIN apps /\ apps'[id] # apps[id]

\* this step ends an invocation on id that follows an earlier ended one, both
\* having found the application and returned normally
SecondRunEnds(id) ==
    /\ last'[id].n = last[id].n + 1
    /\ last[id].n > 0
    /\ last[id].outcome = "returned"
    /\ last'[id].outcome = "returned"
    /\ IsSome(last[id].after)
    /\ IsSome(last'[id].after)

SameScoreAndStatus(first, second) ==
    /\ second.ai_score = first.ai_score
    /\ second.status = first.status

\* C1: process_application never raises to its caller: every invocation that
\* entered its body, whatever step failed, has returned normally.
C1_NeverRaises ==
    \A id \in AppIds : EndedInBody(id) => last[id].outcome = "returned"

\* C2: every application an intake endpoint creates has the pipeline invoked
\* on its id: the background task scheduled for it enters the body of
\* process_application (and so the application can leave pending).
C2_TaskInvokesPipeline ==
    \A id \in AppIds :
        (last[id].n > 0 /\ last[id].src = "task") => last[id].path # "type_error"

\* C3: when an invocation ends for an application whose record and job both
\* exist, the persisted status is shortlisted, flagged or rejected, whether
\* scoring succeeded or a step failed.
C3_EndsTerminal ==
    \A id \in AppIds :
        ( /\ EndedInBody(id)
          /\ ~Active(id)
          /\ id \in DOMAIN apps
          /\ apps[id].job_id \in DOMAIN jobs )
        => apps[id].status \in Terminal

\* C4 as stated: every change of a status is from pending into a terminal
\* status, so a terminal status never changes.
C4_OnlyOutOfPending ==
    [][\A id \in AppIds :
          StatusChanges(id) =>
              (apps[id].status = "pending" /\ apps'[id].status \in Terminal)]_vars

\* C4, amended: every change of a status is made by a commit of a
\* process_application run on that application, and the new status is the
\* terminal status that run assigned; a later run may replace one terminal
\* status by another.
C4_ChangesByCommitIntoTerminal ==
    [][\A id \in AppIds :
          StatusChanges(id) =>
              /\ run[id].pc \in {"commit", "handler_commit"}
              /\ apps'[id].status = Get(run[id].application).status
              /\ apps'[id].status \in Terminal]_vars

\* a later run has replaced one terminal status by another
C4_Witness ==
    \E id \in AppIds :
        /\ EndedInBody(id)
        /\ IsSome(last[id].before)
        /\ IsSome(last[id].after)
        /\ Get(last[id].before).status \in Terminal
        /\ Get(last[id].after).status \in Terminal \ {Get(last[id].before).status}

\* C5: once the status of an application is no longer pending, no step sets
\* it back to pending.
C5_NeverBackToPending ==
    [][\A id \in AppIds :
          (id \in DOMAIN apps /\ apps[id].status # "pending")
              => apps'[id].status # "pending"]_vars

\* a run has committed on an application that was already out of pending
C5_Witness ==
    \E id \in AppIds :
        /\ last[id].path \in {"scored", "flagged_on_error"}
        /\ IsSome(last[id].before)
        /\ Get(last[id].before).status # "pending"
        /\ Get(last[id].after).status # "pending"

\* the step of session r whose exception the except block caught: the job
\* lookup if no job was read, parsing and scoring if no result was computed,
\* else the commit of the result
FailedStep(r) ==
    IF r.job = None THEN "query_job"
    ELSE IF r.scoring_result = None THEN "parse_score"
    ELSE "commit"

\* this step ends an invocation on id in which parsing, scoring or the commit
\* of the result failed
FailedRunEnds(id) ==
    /\ run[id].pc = "handler_commit"
    /\ run'[id].pc = "idle"
    /\ FailedStep(run[id]) \in {"parse_score", "commit"}

\* C6: when parsing, scoring or the commit of the result fails, the persisted
\* status becomes flagged and the persisted ai_score and parsed_data are what
\* they were before the run.
C6_FailureFlagsAndKeeps ==
    [][\A id \in AppIds :
          FailedRunEnds(id) =>
              /\ apps'[id].status = "flagged"
              /\ apps'[id].ai_score = Get(run[id].before).ai_score
              /\ apps'[id].parsed_data = Get(run[id].before).parsed_data]_vars

\* the stored triple is never half of a result: a pending application has no score
NoScoreWhilePending ==
    \A id \in DOMAIN apps : apps[id].status = "pending" => apps[id].ai_score = None

\* a step that changes a row writes every attribute the running invocation
\* has assigned, at once: the stored triple becomes the triple of its session
WritesWholeTriple ==
    \A id \in AppIds :
        RowChanges(id) =>
            /\ run[id].pc \in {"commit", "handler_commit"}
            /\ run'[id].pc = "idle"
            /\ Triple(apps'[id]) = Triple(Get(run[id].application))
            /\ \A f \in DOMAIN apps[id] \ DOMAIN Triple(apps[id]) :
                    apps'[id][f] = apps[id][f]

\* C7: a reader never observes a partially written result: in every state the
\* stored triple {parsed_data, ai_score, status} is entirely as before the
\* run or entirely as the run wrote it, and no state shows a score on a
\* pending application.
C7_NoPartialResult == []NoScoreWhilePending /\ [][WritesWholeTriple]_vars

\* a run holds a full result in its session while the stored row is untouched
C7_Witness ==
    \E id \in AppIds :
        /\ run[id].pc = "commit"
        /\ run[id].dirty = {"parsed_data", "ai_score", "status"}
        /\ IsSome(Get(run[id].application).ai_score)
        /\ apps[id].status = "pending"
        /\ apps[id].ai_score = None

C10_ScoreInRange ==
    probe.fn = "score_application" => probe.result.score \in 0..100

\* every required skill matched in a long resume: the largest score
C10_Witness ==
    /\ probe.fn = "score_application"
    /\ probe.result.total_required_skills > 0
    /\ probe.result.matched_skills = probe.result.total_required_skills
    /\ probe.parsed_cv_data.text_length > 2000
    /\ probe.result.score = 100

\* C28: the score the scorer returns is never below 50, so it never returns
\* rejected and no application is persisted as rejected by process_application:
\* the pipeline persists shortlisted or flagged only.
C28_NeverRejected ==
    \A id \in AppIds :
        /\ id \in DOMAIN apps =>
              /\ apps[id].status \in {"pending", "shortlisted", "flagged"}
              /\ IsSome(apps[id].ai_score) => Get(apps[id].ai_score) >= 50
        /\ IsSome(run[id].scoring_result) =>
              /\ Get(run[id].scoring_result).score >= 50
              /\ Get(run[id].scoring_result).status # "rejected"
        /\ (last[id].n > 0 /\ IsSome(last[id].after) /\ last[id].path = "scored") =>
              Get(last[id].after).status \in {"shortlisted", "flagged"}

\* a run scored an application without parsed facts: the lowest score, 50,
\* is persisted with status flagged
C28_Witness ==
    \E id \in DOMAIN apps :
        /\ last[id].n > 0
        /\ last[id].path = "scored"
        /\ apps[id].parsed_data = None
        /\ apps[id].ai_score = Some(50)
        /\ apps[id].status = "flagged"

\* the scorer alone, over the requirement texts and facts records of ScoreSpec
ScorerNeverBelowBase ==
    probe.fn = "score_application" =>
        probe.result.score >= 50 /\ probe.result.status # "rejected"

(***************************************************************************)
(* Properties of the scoring service                                       *)
(***************************************************************************)
\* score_application has been applied to the drawn inputs
Scored == probe.fn = "score_application"

\* C11: in every result of score_application the status is determined by the
\* returned integer score alone: shortlisted iff score >= 75, flagged iff
\* 50 <= score < 75, rejected iff score < 50.
C11_StatusFromScore ==
    Scored =>
        /\ probe.result.status = "shortlisted" <=> probe.result.score >= 75
        /\ probe.result.status = "flagged" <=>
               (probe.result.score >= 50 /\ probe.result.score < 75)
        /\ probe.result.status = "rejected" <=> probe.result.score < 50

\* a result exactly on the upper threshold
C11_Witness ==
    /\ Scored
    /\ probe.result.score = 75
    /\ probe.result.status = "shortlisted"

\* C12: for fixed requirements and text length, a skill list that contains
\* another gets a score at least as high: adding a skill never lowers the score.
C12_ScoreMonotone ==
    probe.fn = "score_application_twice" =>
        probe.more_result.score >= probe.result.score

\* a skill was added and the score rose
C12_Witness ==
    /\ probe.fn = "score_application_twice"
    /\ probe.parsed_cv_data.skills # probe.more_cv_data.skills
    /\ probe.parsed_cv_data.skills \subseteq probe.more_cv_data.skills
    /\ probe.more_result.score > probe.result.score

C25_ScoreFormula ==
    Scored =>
        LET R == ExtractKeywords(Get(probe.job_requirements))
            skills == IF "skills" \in DOMAIN probe.parsed_cv_data
                      THEN probe.parsed_cv_data.skills ELSE {}
            matches == Cardinality({k \in R : \E sk \in skills : Contains(k, Lower(sk))})
            n == Cardinality(R)
            d == IF n = 0 THEN 1 ELSE n
            len == IF "text_length" \in DOMAIN probe.parsed_cv_data
                   THEN probe.parsed_cv_data.text_length ELSE 0
            L == CASE len > 2000 -> 10
                   [] len > 1000 /\ len <= 2000 -> 5
                   [] OTHER -> 0
            B40 == IF n = 0 THEN 0 ELSE Min(40 * matches, 40 * d)
            total == Min(100 * d, 50 * d + B40 + L * d)
        IN  /\ probe.result.total_required_skills = n
            /\ probe.result.matched_skills = matches
            /\ 0 <= matches /\ matches <= n
            /\ probe.result.score * d <= total
            /\ total < (probe.result.score + 1) * d

\* one of three required keywords matched in a text of exactly 2000
\* characters: 50 + 13.33.. + 5, of which the integer part is 68
C25_Witness ==
    /\ Scored
    /\ probe.result.total_required_skills = 3
    /\ probe.result.matched_skills = 1
    /\ "text_length" \in DOMAIN probe.parsed_cv_data
    /\ probe.parsed_cv_data.text_length = 2000
    /\ probe.result.score = 68

\* the resume text of the probe contains every keyword required of it
ResumeHasEveryKeyword ==
    \A keyword \in ExtractKeywords(probe.job_requirements) :
        Contains(keyword, TextLower(probe.text))

\* C14: requirement keywords and resume skills come from the same vocabulary:
\* every required keyword found is a word the parser can find in a resume,
\* and a resume whose text contains every required keyword is scored with
\* matched_skills = total_required_skills.
C14_SameVocabulary ==
    probe.fn = "basic_scoring" =>
        /\ ExtractKeywords(probe.job_requirements) \subseteq Range(skills_keywords)
        /\ ResumeHasEveryKeyword =>
               probe.result.matched_skills = probe.result.total_required_skills

\* text a is the first characters of text b
IsPrefix(a, b) ==
    /\ Len(a.body) <= Len(b.body)
    /\ a.body = SubSeq(b.body, 1, Len(a.body))
    /\ a.pad > 0 => (a.body = b.body /\ a.pad <= b.pad)

\* C19: the preview in the facts record is the whole text without a marker
\* when the text has at most 500 characters, and its first 500 characters
\* followed by the marker when it has 501 or more; text_length is the length
\* of the full text.
C19_PreviewTruncation ==
    probe.fn \in {"extract_info_from_text", "basic_scoring"} =>
        LET preview == probe.facts.raw_text_preview
        IN  /\ TextLen(probe.text) <= 500 =>
                   (preview.text = probe.text /\ preview.marker = "")
            /\ TextLen(probe.text) >= 501 =>
                   /\ TextLen(preview.text) = 500
                   /\ IsPrefix(preview.text, probe.text)
                   /\ preview.marker = "..."
            /\ probe.facts.text_length = TextLen(probe.text)

\* a text of exactly 501 characters has been cut to 500 and marked
C19_Witness ==
    /\ probe.fn = "extract_info_from_text"
    /\ TextLen(probe.text) = 501
    /\ Len(probe.text.body) > 0
    /\ TextLen(probe.facts.raw_text_preview.text) = 500
    /\ probe.facts.raw_text_preview.marker = "..."
    /\ probe.facts.text_length = 501

\* a text whose first 500 characters end inside a word has been cut there
C19_WitnessCutInBody ==
    /\ probe.fn = "extract_info_from_text"
    /\ Len(probe.text.body) > 500
    /\ Len(probe.facts.raw_text_preview.text.body) = 500

(***************************************************************************)
(* Properties of the report summary                                        *)
(***************************************************************************)
Summarized == probe.fn \in {"generate_report_summary", "generate_report_summary_twice"}

SummarizedTwice == probe.fn = "generate_report_summary_twice"

\* the call left the list of applications it was given as it was
SnapshotUntouched == probe.applications_after = probe.applications

ScoredAt == {i \in 1..Len(probe.applications) : probe.applications[i].ai_score # None}

ScoreAt(i) == Get(probe.applications[i].ai_score)

\* application i comes before application j in the ranking: a higher score,
\* or an equal score and an earlier place in the snapshot
RanksBefore(i, j) ==
    \/ ScoreAt(i) > ScoreAt(j)
    \/ ScoreAt(i) = ScoreAt(j) /\ i < j

\* the position in the snapshot of the application with this email
PlaceOf(email) ==
    CHOOSE i \in 1..Len(probe.applications) : probe.applications[i].applicant_email = email

\* C16: top_candidates holds only applications of the snapshot with a non-null
\* ai_score, in descending order of score with equal scores in snapshot
\* order, and is the first 5 of that ranking (all of it when fewer are scored).
C16_TopCandidatesRanked ==
    Summarized =>
        LET top == probe.summary.top_candidates
            At(k) == PlaceOf(top[k].email)
        IN  /\ Len(top) = Min(5, Cardinality(ScoredAt))
            /\ \A k \in 1..Len(top) :
                  /\ \E i \in ScoredAt : probe.applications[i].applicant_email = top[k].email
                  /\ top[k].score = ScoreAt(At(k))
                  /\ top[k].status = probe.applications[At(k)].status
            /\ \A k, l \in 1..Len(top) : k < l => RanksBefore(At(k), At(l))
            /\ \A i \in ScoredAt :
                  (\A k \in 1..Len(top) : At(k) # i) =>
                      \A k \in 1..Len(top) : RanksBefore(At(k), i)

\* six scored applications, the two of score 90 with ben before ada: five are
\* kept, ben ranked directly before ada
C16_Witness ==
    /\ probe.fn = "generate_report_summary"
    /\ Cardinality(ScoredAt) = 6
    /\ PlaceOf("ben@example.com") < PlaceOf("ada@example.com")
    /\ Len(probe.summary.top_candidates) = 5
    /\ probe.summary.top_candidates[2].email = "ben@example.com"
    /\ probe.summary.top_candidates[3].email = "ada@example.com"


RECURSIVE SumAt(_)
\* the sum of the scores at the positions in S
SumAt(S) ==
    IF S = {} THEN 0
    ELSE LET i == CHOOSE i \in S : TRUE IN ScoreAt(i) + SumAt(S \ {i})

\* max_score and min_score are the largest and the smallest non-null score,
\* all three statistics are 0 when no application is scored, and an empty
\* snapshot gives a total of 0 and empty lists
ExtremesAndDefaults ==
    LET st == probe.summary.statistics
    IN  /\ ScoredAt # {} =>
              /\ \E i \in ScoredAt : st.max_score = ScoreAt(i)
              /\ \E i \in ScoredAt : st.min_score = ScoreAt(i)
              /\ \A i \in ScoredAt : st.min_score <= ScoreAt(i) /\ ScoreAt(i) <= st.max_score
              /\ AverageScale * st.min_score <= st.average_score
              /\ st.average_score <= AverageScale * st.max_score
        /\ ScoredAt = {} =>
              st.max_score = 0 /\ st.min_score = 0 /\ st.average_score = 0
        /\ Len(probe.applications) = 0 =>
              /\ st.total_applications = 0
              /\ probe.summary.top_candidates = <<>>
              /\ probe.summary.skills_analysis.top_skills = <<>>

\* C17 as stated: max_score, min_score and average_score are the maximum, the
\* minimum and the mean of the non-null scores; all three are 0 when no
\* application is scored; an empty snapshot gives total_applications 0 and
\* empty top_candidates and top_skills.  (average_score is in hundredths.)
C17_ExactMean ==
    Summarized =>
        /\ ExtremesAndDefaults
        /\ ScoredAt # {} =>
              probe.summary.statistics.average_score * Cardinality(ScoredAt)
                  = AverageScale * SumAt(ScoredAt)

\* C17, amended: as stated, with average_score the mean of the non-null scores
\* rounded to two decimal places (at most half a hundredth from the mean).
C17_RoundedMean ==
    Summarized =>
        /\ ExtremesAndDefaults
        /\ ScoredAt # {} =>
              LET n == Cardinality(ScoredAt)
                  d == probe.summary.statistics.average_score * n
                           - AverageScale * SumAt(ScoredAt)
              IN  2 * d <= n /\ 2 * (0 - d) <= n

\* scores 90, 90 and 70 beside an unscored application: the mean 83.33...
\* is reported as 83.33
C17_Witness ==
    /\ probe.fn = "generate_report_summary"
    /\ Len(probe.applications) = 4
    /\ {ScoreAt(i) : i \in ScoredAt} = {90, 70}
    /\ Cardinality(ScoredAt) = 3
    /\ probe.summary.statistics.average_score = 8333
    /\ probe.summary.statistics.max_score = 90
    /\ probe.summary.statistics.min_score = 70


\* the positions in the snapshot of the applications of this status
WithStatus(status) ==
    {i \in 1..Len(probe.applications) : probe.applications[i].status = status}

\* C18: shortlisted, flagged and rejected are the numbers of applications of
\* the snapshot with that status, total_applications is the size of the
\* snapshot, and a pending application is counted in total_applications only.
C18_CountsByStatus ==
    Summarized =>
        LET st == probe.summary.statistics
        IN  /\ st.shortlisted = Cardinality(WithStatus("shortlisted"))
            /\ st.flagged = Cardinality(WithStatus("flagged"))
            /\ st.rejected = Cardinality(WithStatus("rejected"))
            /\ st.total_applications = Len(probe.applications)
            /\ st.total_applications
                   = st.shortlisted + st.flagged + st.rejected
                       + Cardinality(WithStatus("pending"))

\* a snapshot with a pending application and applications of the three other
\* statuses, two of them flagged
C18_Witness ==
    /\ probe.fn = "generate_report_summary"
    /\ Cardinality(WithStatus("pending")) = 1
    /\ probe.summary.statistics.shortlisted = 1
    /\ probe.summary.statistics.flagged = 2
    /\ probe.summary.statistics.rejected = 1
    /\ probe.summary.statistics.total_applications = 5


\* C26: the success count of the processing notes is the number of
\* applications of the snapshot whose parsed_data is non-null, an empty record
\* counting as parsed_data, and the total of the pair is the snapshot size.
C26_SuccessCountsNonNull ==
    Summarized =>
        LET rate == probe.summary.processing_notes.cv_parsing_success_rate
        IN  /\ rate[1] = Cardinality({i \in 1..Len(probe.applications) :
                                         probe.applications[i].parsed_data # None})
            /\ rate[2] = Len(probe.applications)

\* the same count with an empty record left out, as Python's truth test does
SuccessCountsNonEmpty ==
    Summarized =>
        LET rate == probe.summary.processing_notes.cv_parsing_success_rate
        IN  /\ rate[1] = Cardinality({i \in 1..Len(probe.applications) :
                                         /\ probe.applications[i].parsed_data # None
                                         /\ probe.applications[i].parsed_data # Some(EmptyDict)})
            /\ rate[2] = Len(probe.applications)

(***************************************************************************)
(* Properties of intake and the scheduled run                              *)
(***************************************************************************)
\* the last ended invocation on id was a scheduled background task
TaskRunEnded(id) == last[id].n > 0 /\ last[id].src = "task"

\* that invocation read the record of id, and committed to it once: the
\* scoring result, or flagged from the except block
FoundAndMutatedOnce(id) ==
    /\ IsSome(last[id].before)
    /\ last[id].path \in {"scored", "flagged_on_error"}

\* every step that schedules a task for an application commits the record in
\* the same request, before the task can start, with status pending and a
\* null ai_score
CommittedBeforeScheduled ==
    [][\A t \in tasks' \ tasks :
          /\ t.app \notin DOMAIN apps
          /\ t.app \in DOMAIN apps'
          /\ apps'[t.app].status = "pending"
          /\ apps'[t.app].ai_score = None
          /\ ~Active(t.app)']_vars

\* C20: a record is committed, pending and unscored, before its task is
\* scheduled; hence every scheduled run finds the record of its application
\* and mutates it exactly once.
C20_ScheduledRunMutatesOnce ==
    \A id \in AppIds : TaskRunEnded(id) => FoundAndMutatedOnce(id)

\* the same for the scheduled runs that returned normally
ReturnedTaskRunMutatesOnce ==
    \A id \in AppIds :
        (TaskRunEnded(id) /\ last[id].outcome = "returned") => FoundAndMutatedOnce(id)


\* a background task for id is queued or running
TaskPending(id) ==
    Queued(id) + (IF Active(id) /\ run[id].src = "task" THEN 1 ELSE 0)

\* C21: at most one invocation of process_application is in progress for an
\* application id: a task is scheduled only by the step that creates its
\* application, never for an application that existed, so an id has at most
\* one task, queued or running, and none once its task has run.
C21_OneInvocationPerApplication ==
    /\ [](\A id \in AppIds : TaskPending(id) <= 1)
    /\ [][\A id \in AppIds :
             /\ Queued(id)' > Queued(id) =>
                   /\ id \notin DOMAIN apps
                   /\ id \in DOMAIN apps'
                   /\ last[id].n = 0
                   /\ ~Active(id)
                   /\ Queued(id) = 0
             /\ TaskPending(id)' <= Max(1, TaskPending(id))]_vars

\* the task of an application is running and no other is queued for it
C21_Witness ==
    \E id \in DOMAIN apps :
        /\ Active(id)
        /\ run[id].src = "task"
        /\ run[id].pc = "commit"
        /\ Queued(id) = 0


\* pending has no score, shortlisted a score of 75 or more, rejected one below 50
ScoreFitsUnflagged(row) ==
    /\ row.status = "pending" => row.ai_score = None
    /\ row.status = "shortlisted" => IsSome(row.ai_score) /\ Get(row.ai_score) >= 75
    /\ row.status = "rejected" => IsSome(row.ai_score) /\ Get(row.ai_score) < 50

Accepted(job_id, job_status, deadline_passed, upload) ==
    /\ job_id \in DOMAIN jobs
    /\ job_status = "active"
    /\ ~deadline_passed
    /\ upload.content_type \in
           { "application/pdf",
             "application/vnd.openxmlformats-officedocument.wordprocessingml.document",
             "application/msword",
             "text/plain" }
    /\ upload.saved

\* this step adds one pending application with the stored upload as its
\* resume, and one task for it
CreatesForUpload(job_id, upload) ==
    \E id \in AppIds :
        /\ id \notin DOMAIN apps
        /\ DOMAIN apps' = DOMAIN apps \cup {id}
        /\ apps'[id].job_id = job_id
        /\ apps'[id].resume_file = Some(upload.path)
        /\ apps'[id].status = "pending"
        /\ apps'[id].ai_score = None
        /\ tasks' = tasks \cup {[app |-> id, nargs |-> 1]}

\* C29: submit_application creates an application and schedules its task only
\* for an existing active job whose deadline has not passed and an upload of
\* one of the four allowed types that was saved; a rejected request (404,
\* 400, 500) creates no application and schedules no task.
C29_SubmitOnlyWhenAccepted ==
    [][\A job_id \in RequestedJobIds, job_status \in JobStatuses,
          deadline_passed \in BOOLEAN, upload \in Uploads :
            SubmitApplication(job_id, job_status, deadline_passed, upload) =>
                IF Accepted(job_id, job_status, deadline_passed, upload)
                THEN CreatesForUpload(job_id, upload)
                ELSE apps' = apps /\ tasks' = tasks]_vars

\* an accepted upload: its application is stored, pending, and its task queued
C29_Witness ==
    \E id \in DOMAIN apps :
        /\ apps[id].resume_file = Some("cv_python.txt")
        /\ apps[id].status = "pending"
        /\ [app |-> id, nargs |-> 1] \in tasks


\* the last invocation on id committed a scoring result
ScoredRunEnded(id) ==
    /\ last[id].n > 0
    /\ last[id].path = "scored"
    /\ IsSome(last[id].before)
    /\ IsSome(last[id].after)

\* C30: a successful run replaces the parsed_data the application held: after
\* it parsed_data is null, or a facts record of the parser with exactly the
\* keys email, skills, text_length and raw_text_preview, whatever was stored
\* before (the metadata or the email record of a webhook endpoint).
C30_ParsedDataReplaced ==
    \A id \in AppIds :
        ScoredRunEnded(id) =>
            LET after == Get(last[id].after)
                file == after.resume_file
            IN  /\ \/ after.parsed_data = None
                   \/ DOMAIN Get(after.parsed_data)
                          = {"email", "skills", "text_length", "raw_text_preview"}
                /\ (file = None \/ ~PathExists(Get(file))) => after.parsed_data = None
                /\ (IsSome(file) /\ PathExists(Get(file))) =>
                       after.parsed_data = ParseResume(Get(file))

\* an application of the email-parser endpoint, stored with its email record,
\* was processed: the record is gone
C30_Witness ==
    \E id \in DOMAIN apps :
        /\ ScoredRunEnded(id)
        /\ IsSome(Get(last[id].before).parsed_data)
        /\ "source" \in DOMAIN Get(Get(last[id].before).parsed_data)
        /\ apps[id].parsed_data = None
        /\ apps[id].ai_score = Some(50)


(***************************************************************************)
(* Properties of runs on their own                                         *)
(***************************************************************************)
\* the application has no resume_file, or one that names no existing file
NothingToParse(row) ==
    row.resume_file = None \/ ~PathExists(Get(row.resume_file))

\* C24: a successful run on an application without a resume_file, or with one
\* that names no existing file, persists parsed_data null, ai_score 50 and
\* status flagged, whatever the requirements text of the job.
C24_NoResumeScoresFifty ==
    \A id \in DOMAIN apps :
        (ScoredRunEnded(id) /\ NothingToParse(Get(last[id].before))) =>
            /\ apps[id].parsed_data = None
            /\ apps[id].ai_score = Some(50)
            /\ apps[id].status = "flagged"

\* a run on a resume_file that names no file, for a job that requires two
\* known skills
C24_Witness ==
    \E id \in DOMAIN apps :
        /\ ScoredRunEnded(id)
        /\ apps[id].resume_file = Some("missing.pdf")
        /\ ExtractKeywords(Get(jobs[apps[id].job_id].requirements)) # {}
        /\ apps[id].ai_score = Some(50)

\* the scorer on the empty facts record, over the requirement texts of ScoreSpec
EmptyFactsScoreFifty ==
    (probe.fn = "score_application" /\ probe.parsed_cv_data = EmptyDict) =>
        probe.result.score = 50 /\ probe.result.status = "flagged"


\* the resume_file names a file that cannot be read, or one whose detected
\* type is not supported
UnreadableResume(row) ==
    /\ IsSome(row.resume_file)
    /\ PathExists(Get(row.resume_file))
    /\ \/ ~Disk(Get(row.resume_file)).readable
       \/ Disk(Get(row.resume_file)).mime \notin SupportedTypes

\* the run on id goes on from parsing to the assignment of a scoring result
ScoresAfterParsing(id) == ParseAndScore(id) /\ run'[id].pc = "assign"

\* C23: a resume that cannot be read or decoded, or whose detected type is
\* not supported, does not divert the run to the failure path: scoring runs
\* on the empty or partial facts record, and the run that commits ends with a
\* non-null ai_score and the status derived from it.
C23_UnreadableResumeStillScored ==
    \A id \in DOMAIN apps :
        /\ (run[id].pc = "parse" /\ UnreadableResume(Get(run[id].application))) =>
              ENABLED ScoresAfterParsing(id)
        /\ (run[id].pc = "assign" /\ UnreadableResume(Get(run[id].application))) =>
              /\ \/ run[id].parsed_data = None
                 \/ /\ Get(run[id].parsed_data).skills = {}
                    /\ Get(run[id].parsed_data).text_length = 0
              /\ Get(run[id].scoring_result).score = 50
        /\ (ScoredRunEnded(id) /\ UnreadableResume(Get(last[id].before))) =>
              /\ IsSome(apps[id].ai_score)
              /\ apps[id].status = (IF Get(apps[id].ai_score) >= 75 THEN "shortlisted"
                                    ELSE IF Get(apps[id].ai_score) >= 50 THEN "flagged"
                                    ELSE "rejected")

\* the run on the corrupt file has committed: the facts record of the empty
\* text, score 50, flagged by the score
C23_Witness ==
    \E id \in DOMAIN apps :
        /\ ScoredRunEnded(id)
        /\ apps[id].resume_file = Some("cv_corrupt.pdf")
        /\ IsSome(apps[id].parsed_data)
        /\ Get(apps[id].parsed_data).text_length = 0
        /\ apps[id].ai_score = Some(50)
        /\ apps[id].status = "flagged"


\* what a run on a pending, unscored application persists when it runs with
\* no other run beside it, by the way it ends: the parser's and the scorer's
\* result, flagged alone after a failure, nothing when it raised
AloneResult(row, path) ==
    LET parse == IsSome(row.resume_file) /\ PathExists(Get(row.resume_file))
        parsed_data == IF parse THEN ParseResume(Get(row.resume_file)) ELSE None
        facts == IF Truthy(parsed_data) THEN Get(parsed_data) ELSE EmptyDict
        result == BasicScoring(Get(jobs[row.job_id].requirements), facts)
    IN  IF path = "scored"
        THEN [parsed_data |-> parsed_data, ai_score |-> Some(result.score),
              status |-> result.status]
        ELSE IF path = "flagged_on_error"
        THEN [parsed_data |-> None, ai_score |-> None, status |-> "flagged"]
        ELSE [parsed_data |-> None, ai_score |-> None, status |-> "pending"]

\* this step changes the row of id: it is the commit of the run on id, it
\* changes the pipeline's three columns only, and no other row
OwnCommitOnly(id) ==
    /\ run[id].pc \in {"commit", "handler_commit"}
    /\ run'[id].pc = "idle"
    /\ [apps'[id] EXCEPT !.parsed_data = apps[id].parsed_data,
                         !.ai_score = apps[id].ai_score,
                         !.status = apps[id].status] = apps[id]
    /\ \A other \in DOMAIN apps \ {id} : apps'[other] = apps[other]

\* C22: in every interleaving of runs on different applications a run writes
\* only the parsed_data, ai_score and status of its own application, no job
\* is modified, and the result each application ends with is the result of
\* its run alone.
C22_RunsDoNotInterfere ==
    /\ [][/\ jobs' = jobs
          /\ DOMAIN apps' = DOMAIN apps
          /\ \A id \in DOMAIN apps : apps'[id] # apps[id] => OwnCommitOnly(id)]_vars
    /\ [](\A id \in DOMAIN apps :
             (last[id].n > 0 /\ ~Active(id)) =>
                 Triple(apps[id]) = AloneResult(apps[id], last[id].path))

\* one run has committed its scored result while the run on another
\* application, which read the same job, is about to commit flagged after a
\* failure: the first row holds its own result and the second is still pending
C22_Witness ==
    \E a, b \in DOMAIN apps :
        /\ a # b
        /\ last[a].n > 0
        /\ last[a].path = "scored"
        /\ apps[a].ai_score = Some(90)
        /\ apps[a].status = "shortlisted"
        /\ run[b].pc = "handler_commit"
        /\ IsSome(run[b].job)
        /\ apps[b].status = "pending"
        /\ apps[b].ai_score = None

====
